---- MODULE Spec2Model ----
(***************************************************************************)
(* DataSourceManager (src/workflows/data_source_manager.py): the tiered    *)
(* price/info fallback engine with its session cache, the Alpha Vantage    *)
(* breaker and the yfinance availability flag.                             *)
(*                                                                         *)
(* The module-level manager is used from one thread and is replaced by     *)
(* reset_manager / get_manager alone, so every public method is            *)
(* one atomic action.  What the providers answer is an input of the action *)
(* (drawn with \E); what the method does with the answers is computed by   *)
(* the operators below, statement by statement.                            *)
(*                                                                         *)
(* A DataFrame is abstracted to its provenance: per ticker column a cell   *)
(* [src, tier, period, interval, by, nan, zero]: whose series it is, which *)
(* tier delivered it, under which request window and method it was         *)
(* fetched, whether the column holds only NaN, and whether a row holds 0   *)
(* in place of a value the provider did not supply.                        *)
(***************************************************************************)
EXTENDS Integers, Sequences, FiniteSets, TLC

\* ---------------------------------------------------------------- bounds
\* public calls per session explored, one bound per specification
MaxOps == 3
MaxBreakerOps == 2
MaxBatchOps == 3
MaxRateOps == 3
MaxInfoOps == 3
MaxQuotaOps == 3
MaxDupOps == 3
MaxPreloadOps == 3
MaxStatsOps == 3
MaxResetOps == 4
MaxNormOps == 3

\* ------------------------------------------------------ program constants
AV_CALL_DELAY == 5
max_retries == 3

\* Tickers of the model: two plain ETFs of preload group 'market_etf', one
\* index whose Alpha Vantage mapping is the no-mapping sentinel, and one stock
\* that has no entry in the static AkShare table.
Tickers == {"QQQ", "SPY", "TCEHY", "^VIX9D"}

NoMapping == "None"

\* INDEX_TO_ETF restricted to the indices the model can name.
INDEX_TO_ETF == [t \in {"^GSPC", "^VIX9D"} |->
                   IF t = "^GSPC" THEN "SPY" ELSE NoMapping]

CRYPTO_MAP == [t \in {"BTC-USD", "ETH-USD", "SOL-USD"} |->
                 CASE t = "BTC-USD" -> "BTC" [] t = "ETH-USD" -> "ETH" [] OTHER -> "SOL"]

FX_MAP == [t \in {"CNY=X"} |-> <<"USD", "CNY">>]

\* AKSHARE_US_PREFIX restricted to the modelled tickers.
AKSHARE_US_PREFIX == [t \in {"QQQ", "SPY"} |->
                        IF t = "QQQ" THEN "105.QQQ" ELSE "107.SPY"]

\* period tokens are character sequences, because _period_to_days parses them
P5d  == <<"5", "d">>
P3mo == <<"3", "m", "o">>
Pytd == <<"y", "t", "d">>

\* ---------------------------------------------------------------- helpers
Min(a, b) == IF a < b THEN a ELSE b

Range(s) == {s[k] : k \in 1..Len(s)}

\* Python string order on the modelled tickers ('^' sorts after the capitals)
Rank(t) == CASE t = "QQQ" -> 1 [] t = "SPY" -> 2 [] t = "TCEHY" -> 3 [] t = "^VIX9D" -> 4
            [] OTHER -> 5

RECURSIVE InsertSorted(_, _)
InsertSorted(s, t) ==
  IF s = <<>> THEN <<t>>
  ELSE IF Rank(t) < Rank(Head(s)) THEN <<t>> \o s
  ELSE <<Head(s)>> \o InsertSorted(Tail(s), t)

RECURSIVE Sorted(_)
\* sorted(tickers.strip().split()): ascending, duplicates kept
Sorted(s) == IF s = <<>> THEN <<>> ELSE InsertSorted(Sorted(Tail(s)), Head(s))

IsDigit(c) == c \in {"0", "1", "2", "3", "4", "5", "6", "7", "8", "9"}

DigitVal(c) ==
  CASE c = "0" -> 0 [] c = "1" -> 1 [] c = "2" -> 2 [] c = "3" -> 3 [] c = "4" -> 4
    [] c = "5" -> 5 [] c = "6" -> 6 [] c = "7" -> 7 [] c = "8" -> 8 [] OTHER -> 9

RECURSIVE DigitsVal(_)
DigitsVal(s) == IF s = <<>> THEN 0
                ELSE 10 * DigitsVal(SubSeq(s, 1, Len(s) - 1)) + DigitVal(s[Len(s)])

\* int(text): ValueError unless text is a non-empty digit string
PyInt(s) ==
  IF s # <<>> /\ \A k \in 1..Len(s) : IsDigit(s[k])
  THEN [raised |-> FALSE, val |-> DigitsVal(s)]
  ELSE [raised |-> TRUE, val |-> 0]

EndsWith(s, suf) ==
  /\ Len(s) >= Len(suf)
  /\ SubSeq(s, Len(s) - Len(suf) + 1, Len(s)) = suf

\* _period_to_days
period_to_days(period) ==
  IF EndsWith(period, <<"d">>)
  THEN LET n == PyInt(SubSeq(period, 1, Len(period) - 1))
       IN [raised |-> n.raised, val |-> n.val]
  ELSE IF EndsWith(period, <<"m", "o">>)
  THEN LET n == PyInt(SubSeq(period, 1, Len(period) - 2))
       IN [raised |-> n.raised, val |-> n.val * 22]
  ELSE IF EndsWith(period, <<"y">>)
  THEN LET n == PyInt(SubSeq(period, 1, Len(period) - 1))
       IN [raised |-> n.raised, val |-> n.val * 252]
  ELSE [raised |-> FALSE, val |-> 66]

\* ----------------------------------------------------------------- frames
Cell(src, tier, period, interval, by) ==
  [src |-> src, tier |-> tier, period |-> period, interval |-> interval,
   by |-> by, nan |-> FALSE, zero |-> FALSE]

NaNCell(src, tier, period, interval, by) ==
  [src |-> src, tier |-> tier, period |-> period, interval |-> interval,
   by |-> by, nan |-> TRUE, zero |-> FALSE]

EmptyCols == [t \in {} |-> 0]

\* Python None where a DataFrame is expected
NoFrame == [kind |-> "none", cols |-> EmptyCols]

\* a single-ticker DataFrame (columns Open..Volume)
Plain(t, c) == [kind |-> "plain", cols |-> [u \in {t} |-> c]]

\* a MultiIndex DataFrame (level 1 = ticker)
Multi(cols) == [kind |-> "multi", cols |-> cols]

IsNone(f) == f.kind = "none"

Level1(f) == DOMAIN f.cols

\* cached_data.xs(t, level=1, axis=1)
Xs(f, t) == Plain(t, f.cols[t])

\* cached_data.loc[:, level1.isin(found)]
LocIsin(f, found) == Multi([u \in (DOMAIN f.cols) \cap found |-> f.cols[u]])

\* _merge_to_multiindex over a dict ticker -> single-ticker frame
merge_to_multiindex(dfs) ==
  IF DOMAIN dfs = {} THEN NoFrame
  ELSE Multi([u \in DOMAIN dfs |-> dfs[u].cols[CHOOSE k \in DOMAIN dfs[u].cols : TRUE]])

\* ------------------------------------------------------ the ordered dict
\* _batch_cache is a Python dict: iteration follows insertion order and an
\* assignment to an existing key keeps the key's position.
BatchKey(ticker_list, period, interval) ==
  [kind |-> "batch", tl |-> ticker_list, period |-> period, interval |-> interval]

SingleKey(t) ==
  [kind |-> "single", tl |-> <<t>>, period |-> <<>>, interval |-> ""]

HasKey(d, k) == \E n \in 1..Len(d) : d[n].key = k

Get(d, k) == d[CHOOSE n \in 1..Len(d) : d[n].key = k].val

\* mutant: every write adds an entry, as an append to a list of pairs would
Put_appending(d, k, v) == Append(d, [key |-> k, val |-> v])

\* self._batch_cache[k] = v
Put(d, k, v) ==
  IF HasKey(d, k)
  THEN [n \in 1..Len(d) |-> IF d[n].key = k THEN [key |-> k, val |-> v] ELSE d[n]]
  ELSE Append(d, [key |-> k, val |-> v])


\* ------------------------------------------------------------------ state
VARIABLES
  batch_cache,            \* _batch_cache: ordered dict key -> frame
  info_cache,             \* _info_cache: ticker -> info
  av_cache,               \* _av_cache: request params -> payload
  av_rate_limited,        \* _av_rate_limited: the breaker is open
  av_consecutive_limits,  \* _av_consecutive_limits
  yf_available,           \* _yf_available: "None" | "True" | "False"
  stats,                  \* _stats counters
  since_stamp,            \* seconds since _last_api_call['alpha_vantage'], capped
  since_net,              \* seconds since the last Alpha Vantage HTTP call, capped
  min_gap,                \* smallest gap seen between two successive HTTP calls, capped
  akshare_us_prefix,      \* the entries added to the module's AKSHARE_US_PREFIX at run time
  yf_failed,              \* history: a yfinance call has ended in an exception
  ops,                    \* public calls made in this session
  last,                   \* history: what the last public call was given, did and returned
  first_result            \* history: batch key -> the first non-empty frame download_prices
                          \* returned for it, and the number of the call that returned it

cacheVars == <<batch_cache, info_cache, av_cache>>
tierVars  == <<av_rate_limited, av_consecutive_limits, yf_available>>
vars == <<batch_cache, info_cache, av_cache, av_rate_limited, av_consecutive_limits,
          yf_available, stats, since_stamp, since_net, min_gap, akshare_us_prefix,
          yf_failed, ops, last, first_result>>

\* the manager's fields and the module's run-time mapping entries as one record,
\* plus per-call tallies of provider traffic
Mgr == [batch_cache |-> batch_cache, info_cache |-> info_cache, av_cache |-> av_cache,
        av_rate_limited |-> av_rate_limited,
        av_consecutive_limits |-> av_consecutive_limits,
        yf_available |-> yf_available, stats |-> stats,
        since_stamp |-> since_stamp, since_net |-> since_net, min_gap |-> min_gap,
        akshare_us_prefix |-> akshare_us_prefix,
        yf_failed |-> yf_failed,
        av_net |-> 0,      \* HTTP calls to Alpha Vantage
        av_slots |-> 0,    \* _rate_limit('alpha_vantage', ...) calls
        av_reqs |-> 0,     \* _av_request invocations that got past breaker and cache
        av_asked |-> {},   \* tickers _fetch_single_ticker_av asked _av_request for
        av_answers |-> <<>>,  \* the answers of the HTTP calls to Alpha Vantage
        yf_net |-> 0,      \* yf.download / yf.Ticker calls
        yf_answers |-> <<>>,  \* the kinds of answer yfinance gave
        ak_net |-> 0,      \* ak.stock_us_hist calls of _akshare_us_fallback
        ak_probes |-> <<>>]  \* the tickers of the ak.stock_us_hist calls of the prefix probe

\* __init__
InitStats == [av_calls |-> 0, av_cache_hits |-> 0, yf_downloads |-> 0,
              yf_cache_hits |-> 0, fred_calls |-> 0, akshare_calls |-> 0, errors |-> 0]

\* ------------------------------------------------------- the rate limiter
\* time.sleep(d) / time passing: both ages grow; an age of AV_CALL_DELAY
\* stands for "AV_CALL_DELAY or more" (the only comparison made on it)
Elapse(m, d) ==
  [m EXCEPT !.since_stamp = Min(AV_CALL_DELAY, @ + d),
            !.since_net = Min(AV_CALL_DELAY, @ + d)]

\* _rate_limit('alpha_vantage', AV_CALL_DELAY)
rate_limit(m) ==
  LET slept == IF m.since_stamp < AV_CALL_DELAY THEN AV_CALL_DELAY - m.since_stamp ELSE 0
      m1 == Elapse(m, slept)
  IN [m1 EXCEPT !.since_stamp = 0, !.av_slots = @ + 1]

\* self._session.get(AV_BASE_URL, ...) taking lat seconds to answer or fail
NetCall(m, lat) ==
  Elapse([m EXCEPT !.min_gap = Min(@, m.since_net), !.since_net = 0, !.av_net = @ + 1],
         lat)

\* ------------------------------------------------------------ _av_request
\* One answer per attempt:
\*   "note"   Note ... call frequency        (minute rate limit)
\*   "quota"  Information ... rate limit     (daily quota)
\*   "error"  Error Message / other Information
\*   "exc"    timeout or any other exception
\*   "ok"     JSON with a well-formed time series
\*   "nokey"  JSON without the expected time-series key
\*   "badval" JSON whose time series holds an unparsable number or date
\*   "gap"    JSON whose daily time series has a row without one of its numbers

NoData == "None"

\* mutant: a quota message ends the request and leaves the breaker closed
quota_exhausted_ignored(m) == m

\* lines 326-332: 'standard API rate limit' in data['Information']
quota_exhausted(m) == [m EXCEPT !.av_rate_limited = TRUE]

\* mutant: a payload is delivered without clearing the count of rate-limit notes
av_success_keeps_count(m, cache_key, data) ==
  [m EXCEPT !.av_cache = (cache_key :> data) @@ @, !.stats.av_calls = @ + 1]

\* lines 336-340: any other JSON is the payload
av_success(m, cache_key, data) ==
  [m EXCEPT !.av_consecutive_limits = 0,
            !.av_cache = (cache_key :> data) @@ @,
            !.stats.av_calls = @ + 1]

RECURSIVE AvAttempt(_, _, _, _, _)
AvAttempt(m, cache_key, script, lats, attempt) ==
  IF attempt >= max_retries THEN [m |-> m, data |-> NoData]
  ELSE
    LET r  == script[attempt + 1]
        m1 == [NetCall(m, lats[attempt + 1]) EXCEPT !.av_answers = Append(@, r)]
    IN CASE r = "note" ->
              LET m2 == [m1 EXCEPT !.av_consecutive_limits = @ + 1]
              IN IF m2.av_consecutive_limits >= 2
                 THEN [m |-> [m2 EXCEPT !.av_rate_limited = TRUE], data |-> NoData]
                 ELSE IF attempt < max_retries - 1
                 THEN AvAttempt(Elapse(m2, 13), cache_key, script, lats, attempt + 1)
                 ELSE [m |-> m2, data |-> NoData]
         [] r = "error" -> [m |-> m1, data |-> NoData]
         [] r = "quota" -> [m |-> quota_exhausted(m1), data |-> NoData]
         [] r = "exc" ->
              IF attempt < max_retries - 1
              THEN AvAttempt(Elapse(m1, 2 * (attempt + 1)), cache_key, script, lats, attempt + 1)
              ELSE AvAttempt([m1 EXCEPT !.stats.errors = @ + 1], cache_key, script, lats,
                             attempt + 1)
         [] OTHER -> [m |-> av_success(m1, cache_key, r), data |-> r]

\* mutant: the breaker is not consulted before a request
av_request_unguarded(m, cache_key, script, lats) ==
  IF cache_key \in DOMAIN m.av_cache
  THEN [m |-> [m EXCEPT !.stats.av_cache_hits = @ + 1], data |-> m.av_cache[cache_key]]
  ELSE AvAttempt(rate_limit([m EXCEPT !.av_reqs = @ + 1]), cache_key, script, lats, 0)

\* mutant: a half-open breaker, closed again by the next request
av_request_halfopen(m, cache_key, script, lats) ==
  IF cache_key \in DOMAIN m.av_cache
  THEN [m |-> [m EXCEPT !.stats.av_cache_hits = @ + 1], data |-> m.av_cache[cache_key]]
  ELSE AvAttempt(rate_limit([m EXCEPT !.av_rate_limited = FALSE, !.av_reqs = @ + 1]),
                 cache_key, script, lats, 0)

\* _av_request (ALPHA_VANTAGE_KEY is configured)
av_request(m, cache_key, script, lats) ==
  IF m.av_rate_limited THEN [m |-> m, data |-> NoData]
  ELSE IF cache_key \in DOMAIN m.av_cache
  THEN [m |-> [m EXCEPT !.stats.av_cache_hits = @ + 1], data |-> m.av_cache[cache_key]]
  ELSE AvAttempt(rate_limit([m EXCEPT !.av_reqs = @ + 1]), cache_key, script, lats, 0)

AvKey(function, symbol) == [function |-> function, symbol |-> symbol]

\* the numeric fields of a row of the time series
RowFields == {"open", "high", "low", "close", "volume"}

\* data[ts_key] of a payload: per row and numeric field "num" (a number),
\* "missing" (the field is absent) or "bad" (not parsable as a number)
Series(data) ==
  LET full == [f \in RowFields |-> "num"]
  IN CASE data = "ok"     -> <<full, full>>
       [] data = "gap"    -> <<full, [full EXCEPT !["close"] = "missing"]>>
       [] data = "badval" -> <<full, [full EXCEPT !["close"] = "bad"]>>
       [] OTHER -> <<>>

\* _av_daily_to_df, lines 406-416: one row per entry of the series, each
\* number float(vals.get(field, 0)): ValueError on an unparsable field, 0 for
\* an absent one
av_daily_to_df(ts) ==
  [raised |-> \E k \in 1..Len(ts) : \E f \in RowFields : ts[k][f] = "bad",
   rows |-> [k \in 1..Len(ts) |->
               [f \in RowFields |-> IF ts[k][f] = "missing" THEN "zero" ELSE "num"]]]

\* _av_daily_to_df / _av_crypto_to_df / _av_fx_to_df: None without the series
\* key or without rows, else the frame of the rows
av_to_df(data, ticker, period, interval, by) ==
  IF data = "nokey" THEN [df |-> NoFrame, raised |-> FALSE]
  ELSE LET n == av_daily_to_df(Series(data))
       IN IF n.raised THEN [df |-> NoFrame, raised |-> TRUE]
          ELSE IF n.rows = <<>> THEN [df |-> NoFrame, raised |-> FALSE]
          ELSE [df |-> Plain(ticker,
                             [Cell(ticker, "av", period, interval, by) EXCEPT
                                !.zero = \E k \in 1..Len(n.rows) :
                                           \E f \in RowFields : n.rows[k][f] = "zero"]),
                raised |-> FALSE]

\* _fetch_single_ticker_av
fetch_single_ticker_av(m, ticker, script, lats, period, interval, by) ==
  LET fn  == IF ticker \in DOMAIN CRYPTO_MAP THEN "DIGITAL_CURRENCY_DAILY"
             ELSE IF ticker \in DOMAIN FX_MAP THEN "FX_DAILY"
             ELSE "TIME_SERIES_DAILY"
      sym == IF ticker \in DOMAIN CRYPTO_MAP THEN CRYPTO_MAP[ticker]
             ELSE IF ticker \in DOMAIN FX_MAP THEN "USDCNY"
             ELSE IF ticker \in DOMAIN INDEX_TO_ETF THEN INDEX_TO_ETF[ticker]
             ELSE ticker
  IN IF sym = NoMapping
     THEN [m |-> m, df |-> NoFrame, raised |-> FALSE]
     ELSE LET a == av_request([m EXCEPT !.av_asked = @ \cup {ticker}], AvKey(fn, sym),
                               script, lats)
          IN IF a.data = NoData
             THEN [m |-> a.m, df |-> NoFrame, raised |-> FALSE]
             ELSE LET c == av_to_df(a.data, ticker, period, interval, by)
                  IN [m |-> a.m, df |-> c.df, raised |-> c.raised]


\* --------------------------------------------------------------- yfinance
\* What yf.download answers: an exception (transport or import error), an
\* empty frame, or a frame in which the tickers of `data` carry prices and
\* the other requested tickers are all-NaN columns.  One requested ticker
\* gives a single-ticker frame, several give a MultiIndex frame.
YfOutcomes(tks) ==
  {[kind |-> "exc", data |-> {}], [kind |-> "empty", data |-> {}]}
    \cup {[kind |-> "data", data |-> D] : D \in (SUBSET Range(tks)) \ {{}}}

YfFrame(tks, D, period, interval, by) ==
  IF Cardinality(Range(tks)) = 1
  THEN Plain(tks[1], Cell(tks[1], "yf", period, interval, by))
  ELSE Multi([t \in Range(tks) |->
                IF t \in D THEN Cell(t, "yf", period, interval, by)
                ELSE NaNCell(t, "yf", period, interval, by)])

\* _yfinance_fallback
yfinance_fallback(m, tks, period, interval, by, yfo) ==
  IF m.yf_available = "False" THEN [m |-> m, data |-> NoFrame]
  ELSE
    LET m1 == [m EXCEPT !.yf_net = @ + 1, !.yf_answers = Append(@, yfo.kind)]
        probed == IF m1.yf_available = "None" THEN "False" ELSE m1.yf_available
    IN CASE yfo.kind = "data" ->
              [m |-> [m1 EXCEPT !.stats.yf_downloads = @ + 1,
                                !.yf_available = IF @ = "None" THEN "True" ELSE @],
               data |-> YfFrame(tks, yfo.data, period, interval, by)]
         [] yfo.kind = "empty" ->
              [m |-> [m1 EXCEPT !.yf_available = probed], data |-> NoFrame]
         [] OTHER ->
              [m |-> [m1 EXCEPT !.stats.errors = @ + 1, !.yf_available = probed,
                                !.yf_failed = TRUE],
               data |-> NoFrame]

\* get_closes: which column's closes the caller is handed (ok = not None)
get_closes(data, ticker) ==
  LET none == [ok |-> FALSE, src |-> ""]
      col(u) == IF data.cols[u].nan THEN none ELSE [ok |-> TRUE, src |-> data.cols[u].src]
  IN IF IsNone(data) THEN none
     ELSE IF data.kind = "multi"
     THEN IF ticker \in Level1(data) THEN col(ticker)
          ELSE IF Cardinality(Level1(data)) = 1
          THEN col(CHOOSE u \in Level1(data) : TRUE)
          ELSE IF /\ ticker \in DOMAIN INDEX_TO_ETF
                  /\ INDEX_TO_ETF[ticker] # NoMapping
                  /\ INDEX_TO_ETF[ticker] \in Level1(data)
          THEN col(INDEX_TO_ETF[ticker])
          ELSE none
     ELSE col(CHOOSE u \in Level1(data) : TRUE)

\* ---------------------------------------------------------------- AkShare
\* ticker.startswith('^')
IsIndexTicker(t) == t \in {"^GSPC", "^VIX9D"}

\* the prefixes _get_akshare_us_code tries for a ticker the table does not hold
ProbePrefixes == <<"106", "105", "107">>

\* what the probe meets: the position of the first prefix the provider answers
\* with rows, 0 if no prefix is answered
ProbeOutcomes == 0..3

\* _get_akshare_us_code: the table (static entries, then the entries added at run
\* time), else one provider call per prefix until one is answered
get_akshare_us_code(m, t, probe) ==
  IF t \in DOMAIN AKSHARE_US_PREFIX THEN [m |-> m, code |-> AKSHARE_US_PREFIX[t]]
  ELSE IF t \in DOMAIN m.akshare_us_prefix THEN [m |-> m, code |-> m.akshare_us_prefix[t]]
  ELSE IF probe = 0
  THEN [m |-> [m EXCEPT !.ak_probes = @ \o <<t, t, t>>], code |-> ""]
  ELSE [m |-> [m EXCEPT !.ak_probes = @ \o [k \in 1..probe |-> t],
                        !.akshare_us_prefix = (t :> ProbePrefixes[probe]) @@ @],
        code |-> ProbePrefixes[probe]]

\* the symbol _akshare_us_fallback would ask the third tier for: "" = skipped,
\* "probe" = the ticker to translate is not in the static table
AkSymbol(t) ==
  LET code(u) == IF u \in DOMAIN AKSHARE_US_PREFIX THEN AKSHARE_US_PREFIX[u] ELSE "probe"
  IN IF IsIndexTicker(t)
     THEN IF t \in DOMAIN INDEX_TO_ETF /\ INDEX_TO_ETF[t] # NoMapping
          THEN code(INDEX_TO_ETF[t]) ELSE ""
     ELSE IF t \in DOMAIN CRYPTO_MAP \/ t \in DOMAIN FX_MAP THEN "coingecko"
     ELSE code(t)

\* positions of tks for which the third tier is contacted
AkNeeded(tks) == {n \in 1..Len(tks) : AkSymbol(tks[n]) # ""}

\* the third tier's answers let happen for tks: hist[n] is "ok" or "fail" for the
\* price request of tks[n], probe[n] the outcome of the prefix probe where the
\* static table has no entry
AkChoices(env, tks) ==
  {[hist |-> h, probe |-> p] :
     h \in [AkNeeded(tks) -> env.akouts],
     p \in [{n \in 1..Len(tks) : AkSymbol(tks[n]) = "probe"} -> ProbeOutcomes]}

RECURSIVE AkLoop(_, _, _, _, _, _, _)
AkLoop(m, results, tks, period, by, ako, n) ==
  IF n > Len(tks) THEN [m |-> m, results |-> results]
  ELSE IF AkSymbol(tks[n]) = "" THEN AkLoop(m, results, tks, period, by, ako, n + 1)
  ELSE
    LET c == IF AkSymbol(tks[n]) = "probe"
             THEN get_akshare_us_code(m, IF IsIndexTicker(tks[n]) THEN INDEX_TO_ETF[tks[n]]
                                         ELSE tks[n], ako.probe[n])
             ELSE [m |-> m, code |-> AkSymbol(tks[n])]
    IN IF c.code = "" THEN AkLoop(c.m, results, tks, period, by, ako, n + 1)
       ELSE IF ako.hist[n] = "ok"
       THEN AkLoop([c.m EXCEPT !.ak_net = @ + 1, !.stats.akshare_calls = @ + 1],
                   (tks[n] :> Plain(tks[n], Cell(tks[n], "ak", period, "1d", by))) @@ results,
                   tks, period, by, ako, n + 1)
       ELSE AkLoop([c.m EXCEPT !.ak_net = @ + 1], results, tks, period, by, ako, n + 1)

\* _akshare_us_fallback: {ticker: DataFrame}
akshare_us_fallback(m, tks, period, by, ako) ==
  IF period_to_days(period).raised
  THEN [m |-> m, results |-> EmptyCols, raised |-> TRUE]
  ELSE LET r == AkLoop(m, EmptyCols, tks, period, by, ako, 1)
       IN [m |-> r.m, results |-> r.results, raised |-> FALSE]


\* -------------------------------------------------------- download_prices
\* the provider answers at once
ZeroLat == <<0, 0, 0>>

\* lines 543-573: the scan of the cached batch entries, in dict order
RECURSIVE SubsetScan(_, _, _, _, _)
SubsetScan(m, ticker_list, period, interval, n) ==
  LET batch_key  == BatchKey(ticker_list, period, interval)
      ticker_set == Range(ticker_list)
      hit(mm, f) == [hit |-> TRUE,
                     m |-> [mm EXCEPT !.stats.av_cache_hits = @ + 1], result |-> f]
  IN IF n > Len(m.batch_cache) THEN [hit |-> FALSE, m |-> m, result |-> NoFrame]
     ELSE
       LET cached_key  == m.batch_cache[n].key
           cached_data == m.batch_cache[n].val
           next        == SubsetScan(m, ticker_list, period, interval, n + 1)
       IN IF /\ cached_key.kind = "batch"
             /\ cached_key.period = period
             /\ cached_key.interval = interval
             /\ ticker_set \subseteq Range(cached_key.tl)
          THEN IF cached_data.kind = "multi"
               THEN LET available == Level1(cached_data)
                        found     == ticker_set \cap available
                    IN IF found = {} THEN next
                       ELSE IF Len(ticker_list) = 1
                       THEN LET subset == Xs(cached_data, ticker_list[1])
                            IN hit([m EXCEPT !.batch_cache = Put(@, batch_key, subset)], subset)
                       ELSE LET subset == LocIsin(cached_data, found)
                            IN hit([m EXCEPT !.batch_cache = Put(@, batch_key, subset)], subset)
               ELSE IF Len(ticker_list) = 1 THEN hit(m, cached_data)
                    ELSE next
          ELSE next

\* lines 535-580: exact key, superset entry, per-ticker entry
dp_cache_check(m, ticker_list, period, interval) ==
  LET batch_key == BatchKey(ticker_list, period, interval)
  IN IF HasKey(m.batch_cache, batch_key)
     THEN [hit |-> TRUE, path |-> "exact",
           m |-> [m EXCEPT !.stats.av_cache_hits = @ + 1],
           result |-> Get(m.batch_cache, batch_key)]
     ELSE LET s == SubsetScan(m, ticker_list, period, interval, 1)
          IN IF s.hit THEN [hit |-> TRUE, path |-> "subset", m |-> s.m, result |-> s.result]
             ELSE IF Len(ticker_list) = 1 /\ HasKey(m.batch_cache, SingleKey(ticker_list[1]))
             THEN [hit |-> TRUE, path |-> "single",
                   m |-> [m EXCEPT !.stats.av_cache_hits = @ + 1],
                   result |-> Get(m.batch_cache, SingleKey(ticker_list[1]))]
             ELSE [hit |-> FALSE, path |-> "walk", m |-> m, result |-> NoFrame]

\* ticker in INDEX_TO_ETF and INDEX_TO_ETF[ticker] is None
IsSentinel(t) == t \in DOMAIN INDEX_TO_ETF /\ INDEX_TO_ETF[t] = NoMapping

\* positions of ticker_list whose Alpha Vantage answer can matter
AvNeeded(m, ticker_list) ==
  {n \in 1..Len(ticker_list) :
     /\ ~HasKey(m.batch_cache, SingleKey(ticker_list[n]))
     /\ ~IsSentinel(ticker_list[n])
     /\ ~m.av_rate_limited}

\* mutant: the no-mapping sentinel is taken for an absent mapping, so the index
\* ticker itself is asked of Alpha Vantage
av_step_unmapped(st, ticker, script, period, interval) ==
  LET single_key == SingleKey(ticker)
      m          == st.m
  IN IF HasKey(m.batch_cache, single_key)
     THEN [st EXCEPT !.all_dfs = (ticker :> Get(m.batch_cache, single_key)) @@ @,
                     !.from_single = @ \cup {ticker},
                     !.m.stats.av_cache_hits = @ + 1]
     ELSE IF m.av_rate_limited
     THEN [st EXCEPT !.av_failed_tickers = Append(@, ticker), !.skipped = @ \cup {ticker}]
     ELSE
       LET a == av_request([m EXCEPT !.av_asked = @ \cup {ticker}],
                           AvKey("TIME_SERIES_DAILY", ticker), script, ZeroLat)
           c == av_to_df(a.data, ticker, period, interval, "download_prices")
       IN IF a.data = NoData
          THEN [st EXCEPT !.m = a.m, !.av_failed_tickers = Append(@, ticker)]
          ELSE IF c.raised THEN [st EXCEPT !.m = a.m, !.raised = TRUE]
          ELSE IF ~IsNone(c.df)
          THEN [st EXCEPT !.m = [a.m EXCEPT !.batch_cache = Put(@, single_key, c.df)],
                          !.all_dfs = (ticker :> c.df) @@ @,
                          !.delivered = (ticker :> c.df) @@ @]
          ELSE [st EXCEPT !.m = a.m, !.av_failed_tickers = Append(@, ticker)]

\* lines 588-616: the body of the loop over the primary tier, for one ticker
av_step(st, ticker, script, period, interval) ==
  LET single_key == SingleKey(ticker)
      m          == st.m
  IN IF HasKey(m.batch_cache, single_key)
     THEN [st EXCEPT !.all_dfs = (ticker :> Get(m.batch_cache, single_key)) @@ @,
                     !.from_single = @ \cup {ticker},
                     !.m.stats.av_cache_hits = @ + 1]
     ELSE IF IsSentinel(ticker)
     THEN [st EXCEPT !.av_failed_tickers = Append(@, ticker), !.skipped = @ \cup {ticker}]
     ELSE IF m.av_rate_limited
     THEN [st EXCEPT !.av_failed_tickers = Append(@, ticker), !.skipped = @ \cup {ticker}]
     ELSE
       LET r == fetch_single_ticker_av(m, ticker, script, ZeroLat, period, interval,
                                       "download_prices")
       IN IF r.raised THEN [st EXCEPT !.m = r.m, !.raised = TRUE]
          ELSE IF ~IsNone(r.df)
          THEN [st EXCEPT !.m = [r.m EXCEPT !.batch_cache = Put(@, single_key, r.df)],
                          !.all_dfs = (ticker :> r.df) @@ @,
                          !.delivered = (ticker :> r.df) @@ @]
          ELSE [st EXCEPT !.m = r.m, !.av_failed_tickers = Append(@, ticker)]

\* the answer script of position n (positions whose answer cannot matter have none)
ScriptAt(avo, n) == IF n \in DOMAIN avo THEN avo[n] ELSE <<"error", "error", "error">>

RECURSIVE AvLoop(_, _, _, _, _, _)
\* for ticker in ticker_list; an exception leaves the loop
AvLoop(st, ticker_list, period, interval, avo, n) ==
  IF n > Len(ticker_list) \/ st.raised THEN st
  ELSE AvLoop(av_step(st, ticker_list[n], ScriptAt(avo, n), period, interval),
              ticker_list, period, interval, avo, n + 1)

dp_av_loop(m, ticker_list, period, interval, avo) ==
  AvLoop([m |-> m, all_dfs |-> EmptyCols, av_failed_tickers |-> <<>>,
          delivered |-> EmptyCols, from_single |-> {}, skipped |-> {}, raised |-> FALSE],
         ticker_list, period, interval, avo, 1)

Remove(s, t) == SelectSeq(s, LAMBDA x : x # t)

\* lines 623-639: take each failed ticker's frame out of the yfinance answer
RECURSIVE YfTake(_, _, _)
YfTake(st, yf_result, n) ==
  IF n > Len(st.av_failed_tickers) THEN st
  ELSE
    LET t == st.av_failed_tickers[n]
        store(df) ==
          [st EXCEPT !.all_dfs = (t :> df) @@ @,
                     !.delivered = (t :> df) @@ @,
                     !.m.batch_cache = Put(@, SingleKey(t), df),
                     !.still_failed = Remove(@, t)]
    IN IF ~get_closes(yf_result, t).ok THEN YfTake(st, yf_result, n + 1)
       ELSE IF yf_result.kind = "multi"
       THEN IF t \in Level1(yf_result)
            THEN YfTake(store(Xs(yf_result, t)), yf_result, n + 1)
            ELSE YfTake(st, yf_result, n + 1)
       ELSE YfTake(store(yf_result), yf_result, n + 1)

\* lines 618-639
dp_yf_phase(a, period, interval, yfo) ==
  LET st0 == [m |-> a.m, all_dfs |-> a.all_dfs, delivered |-> a.delivered,
              av_failed_tickers |-> a.av_failed_tickers,
              still_failed |-> a.av_failed_tickers]
  IN IF a.av_failed_tickers = <<>> THEN st0
     ELSE LET y == yfinance_fallback(a.m, a.av_failed_tickers, period, interval,
                                     "download_prices", yfo)
          IN IF IsNone(y.data) THEN [st0 EXCEPT !.m = y.m]
             ELSE YfTake([st0 EXCEPT !.m = y.m], y.data, 1)

RECURSIVE StoreAll(_, _, _)
\* for t, df in ak_results.items(): all_dfs[t] = df; _batch_cache[t|single] = df
StoreAll(st, results, todo) ==
  IF todo = {} THEN st
  ELSE LET t == CHOOSE u \in todo : \A v \in todo : Rank(u) <= Rank(v)
       IN StoreAll([st EXCEPT !.all_dfs = (t :> results[t]) @@ @,
                              !.delivered = (t :> results[t]) @@ @,
                              !.m.batch_cache = Put(@, SingleKey(t), results[t])],
                   results, todo \ {t})

\* lines 641-647
dp_ak_phase(y, period, ako) ==
  IF y.still_failed = <<>> THEN y
  ELSE LET k == akshare_us_fallback(y.m, y.still_failed, period, "download_prices", ako)
       IN StoreAll([y EXCEPT !.m = k.m], k.results, DOMAIN k.results)

\* mutant: one failed ticker voids the whole batch
dp_assemble_all_or_nothing(z, batch_key) ==
  IF Cardinality(DOMAIN z.all_dfs) < Cardinality(Range(batch_key.tl))
  THEN [m |-> z.m, result |-> NoFrame]
  ELSE [m |-> [z.m EXCEPT !.batch_cache = Put(@, batch_key, merge_to_multiindex(z.all_dfs))],
        result |-> merge_to_multiindex(z.all_dfs)]

\* mutant: a call no tier delivered anything to remembers its empty result
dp_assemble_caching_none(z, batch_key) ==
  IF DOMAIN z.all_dfs = {}
  THEN [m |-> [z.m EXCEPT !.batch_cache = Put(@, batch_key, NoFrame)], result |-> NoFrame]
  ELSE LET result == IF Cardinality(DOMAIN z.all_dfs) = 1
                     THEN z.all_dfs[CHOOSE t \in DOMAIN z.all_dfs : TRUE]
                     ELSE merge_to_multiindex(z.all_dfs)
       IN [m |-> [z.m EXCEPT !.batch_cache = Put(@, batch_key, result)], result |-> result]

\* lines 649-662
dp_assemble(z, batch_key) ==
  IF DOMAIN z.all_dfs = {} THEN [m |-> z.m, result |-> NoFrame]
  ELSE LET result == IF Cardinality(DOMAIN z.all_dfs) = 1
                     THEN z.all_dfs[CHOOSE t \in DOMAIN z.all_dfs : TRUE]
                     ELSE merge_to_multiindex(z.all_dfs)
       IN [m |-> [z.m EXCEPT !.batch_cache = Put(@, batch_key, result)], result |-> result]


\* ------------------------------------------------------------ the session
NoCall == [op |-> "none", tickers |-> <<>>, period |-> <<>>, interval |-> "",
           key |-> BatchKey(<<>>, <<>>, ""), result |-> NoFrame, raised |-> FALSE,
           path |-> "", pre_open |-> FALSE, pre_limits |-> 0, pre_yf |-> "None",
           pre_yf_failed |-> FALSE, pre_singles |-> {},
           av_net |-> 0, av_slots |-> 0, av_reqs |-> 0, av_asked |-> {},
           av_answers |-> <<>>, yf_net |-> 0, yf_answers |-> <<>>, ak_net |-> 0,
           yf_handed |-> <<>>, ak_handed |-> <<>>, after_av |-> EmptyCols,
           after_yf |-> EmptyCols, delivered |-> EmptyCols, failed |-> {},
           preloaded |-> {}, first_info |-> EmptyCols,
           ak_probes |-> <<>>, probed |-> {},
           info |-> [source |-> "none",
                     of |-> [src |-> "", tier |-> "", period |-> <<>>, interval |-> "",
                             by |-> "", nan |-> TRUE, zero |-> FALSE]]]

Called(op, tickers, period, interval) ==
  [NoCall EXCEPT !.op = op, !.tickers = tickers, !.period = period, !.interval = interval,
                 !.key = BatchKey(Sorted(tickers), period, interval),
                 !.preloaded = last.preloaded, !.first_info = last.first_info,
                 !.probed = last.probed \cup Range(last.ak_probes),
                 !.pre_open = av_rate_limited, !.pre_limits = av_consecutive_limits,
                 !.pre_yf = yf_available, !.pre_yf_failed = yf_failed,
                 !.pre_singles = {t \in Tickers : HasKey(batch_cache, SingleKey(t))}]

Traffic(call, m) ==
  [call EXCEPT !.av_net = m.av_net, !.av_slots = m.av_slots, !.av_reqs = m.av_reqs,
               !.av_asked = m.av_asked, !.av_answers = m.av_answers,
               !.yf_net = m.yf_net, !.yf_answers = m.yf_answers, !.ak_net = m.ak_net,
               !.ak_probes = m.ak_probes]

\* the manager's fields after the call
SetMgr(m) ==
  /\ batch_cache' = m.batch_cache
  /\ info_cache' = m.info_cache
  /\ av_cache' = m.av_cache
  /\ av_rate_limited' = m.av_rate_limited
  /\ av_consecutive_limits' = m.av_consecutive_limits
  /\ yf_available' = m.yf_available
  /\ stats' = m.stats
  /\ since_stamp' = m.since_stamp
  /\ since_net' = m.since_net
  /\ min_gap' = m.min_gap
  /\ akshare_us_prefix' = m.akshare_us_prefix
  /\ yf_failed' = m.yf_failed

Returned(call, m, result, path) ==
  /\ SetMgr(m)
  /\ last' = [Traffic(call, m) EXCEPT !.result = result, !.path = path]
  /\ first_result' = IF call.op = "download_prices" /\ ~IsNone(result)
                        /\ call.key \notin DOMAIN first_result
                     THEN (call.key :> [frame |-> result, at |-> ops + 1]) @@ first_result
                     ELSE first_result
  /\ ops' = ops + 1

Raised(call, m) ==
  /\ SetMgr(m)
  /\ last' = [Traffic(call, m) EXCEPT !.raised = TRUE, !.path = "raise"]
  /\ UNCHANGED first_result
  /\ ops' = ops + 1

Init ==
  /\ batch_cache = <<>>
  /\ info_cache = EmptyCols
  /\ av_cache = EmptyCols
  /\ av_rate_limited = FALSE
  /\ av_consecutive_limits = 0
  /\ yf_available = "None"
  /\ stats = InitStats
  /\ since_stamp = AV_CALL_DELAY
  /\ since_net = AV_CALL_DELAY
  /\ min_gap = AV_CALL_DELAY
  /\ akshare_us_prefix = EmptyCols
  /\ yf_failed = FALSE
  /\ ops = 0
  /\ last = NoCall
  /\ first_result = EmptyCols

\* the provider answers a specification lets happen
Env(scripts, yfkinds, akouts, max_ops) ==
  [scripts |-> scripts, yfkinds |-> yfkinds, akouts |-> akouts, max_ops |-> max_ops]

\* yfkinds names the yfinance answers let happen: "exc", "empty", "data" (every
\* asked ticker carries prices) and "partial" (some asked ticker is all-NaN)
YfChoices(env, m, tks) ==
  IF tks = <<>> \/ m.yf_available = "False" THEN {[kind |-> "exc", data |-> {}]}
  ELSE {o \in YfOutcomes(tks) :
          IF o.kind = "data"
          THEN IF o.data = Range(tks) THEN "data" \in env.yfkinds
               ELSE "partial" \in env.yfkinds
          ELSE o.kind \in env.yfkinds}

\* download_prices(tickers, period, interval)
DownloadPrices(env, tickers, period, interval) ==
  /\ ops < env.max_ops
  /\ LET ticker_list == Sorted(tickers)
         batch_key   == BatchKey(ticker_list, period, interval)
         call        == Called("download_prices", tickers, period, interval)
         pre         == dp_cache_check(Mgr, ticker_list, period, interval)
     IN IF pre.hit THEN Returned(call, pre.m, pre.result, pre.path)
        ELSE IF period_to_days(period).raised THEN Raised(call, Mgr)
        ELSE
          \E avo \in [AvNeeded(Mgr, ticker_list) -> env.scripts] :
            LET a == dp_av_loop(Mgr, ticker_list, period, interval, avo)
            IN IF a.raised THEN Raised(call, a.m)
               ELSE
                 \E yfo \in YfChoices(env, a.m, a.av_failed_tickers) :
                   LET y == dp_yf_phase(a, period, interval, yfo)
                   IN \E ako \in AkChoices(env, y.still_failed) :
                        LET z == dp_ak_phase(y, period, ako)
                            r == dp_assemble(z, batch_key)
                        IN Returned([call EXCEPT !.yf_handed = y.av_failed_tickers,
                                                 !.ak_handed = y.still_failed,
                                                 !.after_av = a.delivered,
                                                 !.after_yf = y.delivered,
                                                 !.delivered = z.delivered,
                                                 !.failed = Range(ticker_list) \ DOMAIN z.all_dfs],
                                    r.m, r.result, "walk")

\* ------------------------------------------------------------ preload_all
\* _preload_groups restricted to the modelled tickers, in dict order
preload_groups == <<[name |-> "indices", tickers |-> <<"^VIX9D">>],
                    [name |-> "market_etf", tickers |-> <<"SPY", "QQQ">>]>>

priority_order == <<"market_etf", "indices">>

GroupNamed(name) ==
  LET hits == SelectSeq(preload_groups, LAMBDA g : g.name = name)
  IN IF hits = <<>> THEN <<>> ELSE hits[1].tickers

RECURSIVE AppendNew(_, _)
\* append the tickers of ts not seen yet
AppendNew(acc, ts) ==
  IF ts = <<>> THEN acc
  ELSE AppendNew(IF Head(ts) \in Range(acc) THEN acc ELSE Append(acc, Head(ts)), Tail(ts))

RECURSIVE OrderedFrom(_, _)
OrderedFrom(acc, names) ==
  IF names = <<>> THEN acc
  ELSE OrderedFrom(AppendNew(acc, GroupNamed(Head(names))), Tail(names))

\* lines 1418-1426
all_tickers_ordered == OrderedFrom(<<>>, priority_order)

\* lines 1432-1444: does the ticker start in av_tickers (else in yf_tickers)
StartsInAv(t) ==
  IF t \in DOMAIN CRYPTO_MAP \/ t \in DOMAIN FX_MAP THEN TRUE
  ELSE IF t \in DOMAIN INDEX_TO_ETF THEN INDEX_TO_ETF[t] # NoMapping
  ELSE ~IsIndexTicker(t)

av_tickers == SelectSeq(all_tickers_ordered, StartsInAv)

PreAvNeeded(m) ==
  {n \in 1..Len(av_tickers) :
     ~HasKey(m.batch_cache, SingleKey(av_tickers[n])) /\ ~m.av_rate_limited}

\* lines 1450-1467
RECURSIVE PreAvLoop(_, _, _, _)
PreAvLoop(st, period, avo, n) ==
  IF n > Len(av_tickers) \/ st.raised THEN st
  ELSE
    LET ticker     == av_tickers[n]
        single_key == SingleKey(ticker)
        m          == st.m
    IN IF HasKey(m.batch_cache, single_key) THEN PreAvLoop(st, period, avo, n + 1)
       ELSE IF m.av_rate_limited
       THEN PreAvLoop([st EXCEPT !.yf_tickers = Append(@, ticker)], period, avo, n + 1)
       ELSE
         LET r == fetch_single_ticker_av(m, ticker, ScriptAt(avo, n), ZeroLat, period, "1d",
                                         "preload_all")
         IN IF r.raised THEN [st EXCEPT !.m = r.m, !.raised = TRUE]
            ELSE IF ~IsNone(r.df)
            THEN PreAvLoop([st EXCEPT !.m = [r.m EXCEPT !.batch_cache = Put(@, single_key, r.df)]],
                           period, avo, n + 1)
            ELSE PreAvLoop([st EXCEPT !.m = r.m, !.yf_tickers = Append(@, ticker)],
                           period, avo, n + 1)

pre_av_loop(m, period, avo) ==
  PreAvLoop([m |-> m, raised |-> FALSE,
             yf_tickers |-> SelectSeq(all_tickers_ordered, LAMBDA t : ~StartsInAv(t))],
            period, avo, 1)

\* lines 1487-1499: every ticker of the probe batch that has a column is cached
RECURSIVE PreTake(_, _, _, _)
PreTake(m, test_batch, test_result, n) ==
  IF n > Len(test_batch) THEN m
  ELSE LET t == test_batch[n]
       IN IF test_result.kind = "multi"
          THEN IF t \in Level1(test_result)
               THEN PreTake([m EXCEPT !.batch_cache = Put(@, SingleKey(t), Xs(test_result, t))],
                            test_batch, test_result, n + 1)
               ELSE PreTake(m, test_batch, test_result, n + 1)
          ELSE IF Len(test_batch) = 1
          THEN PreTake([m EXCEPT !.batch_cache = Put(@, SingleKey(t), test_result)],
                       test_batch, test_result, n + 1)
          ELSE PreTake(m, test_batch, test_result, n + 1)

RECURSIVE SetToSeq(_)
\* list(set(yf_tickers)); the modelled groups never give more than one batch,
\* so the order of the list has no effect
SetToSeq(S) ==
  IF S = {} THEN <<>>
  ELSE LET t == CHOOSE u \in S : \A v \in S : Rank(u) <= Rank(v)
       IN <<t>> \o SetToSeq(S \ {t})

\* the tickers preload_all hands to yfinance (lines 1475-1480)
PreYfBatch(a) == SubSeq(SetToSeq(Range(a.yf_tickers)), 1, Min(3, Cardinality(Range(a.yf_tickers))))

\* lines 1475-1524
pre_yf_phase(a, period, yfo) ==
  IF a.yf_tickers = <<>> THEN a.m
  ELSE LET test_batch == PreYfBatch(a)
           y == yfinance_fallback(a.m, test_batch, period, "1d", "preload_all", yfo)
       IN IF IsNone(y.data) THEN y.m ELSE PreTake(y.m, test_batch, y.data, 1)

\* lines 1527-1532
ak_candidates(m) ==
  SelectSeq(all_tickers_ordered,
            LAMBDA t : /\ ~HasKey(m.batch_cache, SingleKey(t))
                       /\ ~IsIndexTicker(t)
                       /\ t \notin DOMAIN CRYPTO_MAP /\ t \notin DOMAIN FX_MAP)

RECURSIVE PutSingles(_, _, _)
PutSingles(m, results, todo) ==
  IF todo = <<>> THEN m
  ELSE PutSingles(IF Head(todo) \in DOMAIN results
                  THEN [m EXCEPT !.batch_cache = Put(@, SingleKey(Head(todo)), results[Head(todo)])]
                  ELSE m,
                  results, Tail(todo))

\* lines 1535-1538 with _akshare_batch_preload
pre_ak_phase(m, period, ako) ==
  LET cands == ak_candidates(m)
  IN IF cands = <<>> THEN [m |-> m, raised |-> FALSE]
     ELSE LET k == akshare_us_fallback(m, cands, period, "preload_all", ako)
          IN [m |-> PutSingles(k.m, k.results, cands), raised |-> k.raised]

\* mutant: no merged entry is built for the groups
BuildGroups_skipped(m, period, n) == m

\* lines 1553-1565: one merged entry per group with two or more loaded tickers
RECURSIVE BuildGroups(_, _, _)
BuildGroups(m, period, n) ==
  IF n > Len(preload_groups) THEN m
  ELSE
    LET group_tickers == preload_groups[n].tickers
        have      == {t \in Range(group_tickers) : HasKey(m.batch_cache, SingleKey(t))}
        group_dfs == [t \in have |-> Get(m.batch_cache, SingleKey(t))]
    IN IF Cardinality(have) >= 2
       THEN BuildGroups([m EXCEPT !.batch_cache =
                            Put(@, BatchKey(SetToSeq(have), period, "1d"),
                                merge_to_multiindex(group_dfs))],
                        period, n + 1)
       ELSE BuildGroups(m, period, n + 1)

\* what a completed preload_all(period) has loaded: the tickers with a cached
\* single frame (lines 1556-1560)
Loaded(m, period) ==
  [period |-> period, tickers |-> {t \in Tickers : HasKey(m.batch_cache, SingleKey(t))}]

\* preload_all(period)
PreloadAll(env, period) ==
  /\ ops < env.max_ops
  /\ LET call == Called("preload_all", <<>>, period, "1d")
     IN \E avo \in [PreAvNeeded(Mgr) -> env.scripts] :
          LET a == pre_av_loop(Mgr, period, avo)
          IN IF a.raised THEN Raised(call, a.m)
             ELSE
               \E yfo \in YfChoices(env, a.m, a.yf_tickers) :
                 LET y == pre_yf_phase(a, period, yfo)
                 IN \E ako \in AkChoices(env, ak_candidates(y)) :
                      LET k == pre_ak_phase(y, period, ako)
                      IN IF k.raised THEN Raised(call, k.m)
                         ELSE Returned([call EXCEPT !.yf_handed = PreYfBatch(a),
                                                    !.preloaded = @ \cup {Loaded(k.m, period)}],
                                       BuildGroups(k.m, period, 1), NoFrame, "walk")

\* -------------------------------------------------------- get_ticker_info
NoCell == [src |-> "", tier |-> "", period |-> <<>>, interval |-> "", by |-> "", nan |-> TRUE,
           zero |-> FALSE]

\* an info dict, abstracted to its '_source' and, for a price taken from the
\* price cache, the cell the price was read from; {} has source "none"
Info(source, cell) == [source |-> source, of |-> cell]

NoInfo == Info("none", NoCell)

\* _build_info_from_cache: {} without a cached single frame holding two closes
build_info_from_cache(m, ticker) ==
  IF ~HasKey(m.batch_cache, SingleKey(ticker)) THEN [m |-> m, info |-> NoInfo]
  ELSE LET df == Get(m.batch_cache, SingleKey(ticker))
           c  == df.cols[CHOOSE u \in DOMAIN df.cols : TRUE]
       IN IF c.nan THEN [m |-> m, info |-> NoInfo]
          ELSE LET info == Info("cache_fallback", c)
               IN [m |-> [m EXCEPT !.info_cache = (ticker :> info) @@ @], info |-> info]

\* _yfinance_get_info_fallback; the answer is an exception ("exc"), an info
\* of at most five fields ("empty") or a full info ("data")
yfinance_get_info_fallback(m, ticker, yfkind) ==
  IF m.yf_available = "False" THEN [m |-> m, info |-> NoInfo]
  ELSE
    LET m1 == [m EXCEPT !.yf_net = @ + 1, !.yf_answers = Append(@, yfkind)]
    IN CASE yfkind = "data" ->
              LET info == Info("yfinance", NoCell)
              IN [m |-> [m1 EXCEPT !.info_cache = (ticker :> info) @@ @,
                                   !.yf_available = IF @ = "None" THEN "True" ELSE @],
                  info |-> info]
         [] yfkind = "empty" -> [m |-> m1, info |-> NoInfo]
         [] OTHER ->
              [m |-> [m1 EXCEPT !.yf_available = IF @ = "None" THEN "False" ELSE @,
                                !.yf_failed = TRUE],
               info |-> NoInfo]

\* lines 1007-1063: the info built from OVERVIEW and GLOBAL_QUOTE ({} if neither
\* carries its key; _safe_float turns unparsable fields into 0.0)
av_info(overview, quote) ==
  IF overview \in {"ok", "badval"} THEN Info("alpha_vantage", NoCell)
  ELSE IF quote \in {"ok", "badval"} THEN Info("alpha_vantage_quote_only", NoCell)
  ELSE NoInfo

InfoReturned(call, m, info) ==
  /\ SetMgr(m)
  /\ last' = [Traffic(call, m) EXCEPT
                !.info = info, !.path = "walk",
                !.first_info = IF info # NoInfo /\ call.tickers[1] \notin DOMAIN @
                               THEN (call.tickers[1] :> [info |-> info, at |-> ops + 1]) @@ @
                               ELSE @]
  /\ UNCHANGED first_result
  /\ ops' = ops + 1

\* an answer script that is never read
NoScript == <<"error", "error", "error">>

\* lines 1007-1065: the info of OVERVIEW and GLOBAL_QUOTE, cached when not {}
info_from_av(m, ticker, so, sq) ==
  LET o    == av_request(m, AvKey("OVERVIEW", ticker), so, ZeroLat)
      q    == av_request(o.m, AvKey("GLOBAL_QUOTE", ticker), sq, ZeroLat)
      info == av_info(o.data, q.data)
  IN IF info # NoInfo
     THEN [m |-> [q.m EXCEPT !.info_cache = (ticker :> info) @@ @], info |-> info]
     ELSE [m |-> q.m, info |-> NoInfo]

\* lines 1067-1081: cached prices, then yfinance, then AkShare
info_fallbacks(m, ticker, yfkind, ako) ==
  LET c == build_info_from_cache(m, ticker)
  IN IF c.info # NoInfo THEN c
     ELSE
       LET y == yfinance_get_info_fallback(c.m, ticker, yfkind)
       IN IF y.info # NoInfo THEN y
          ELSE
            LET k == akshare_us_fallback(y.m, <<ticker>>, P3mo, "get_ticker_info", ako)
            IN IF ticker \in DOMAIN k.results
               THEN build_info_from_cache(
                      [k.m EXCEPT !.batch_cache = Put(@, SingleKey(ticker), k.results[ticker])],
                      ticker)
               ELSE [m |-> k.m, info |-> NoInfo]

\* get_ticker_info; o holds the answers of the providers: so and sq the scripts
\* of the two Alpha Vantage requests, yf the yfinance answer, ak the AkShare one
get_ticker_info(m, ticker, o) ==
  IF ticker \in DOMAIN m.info_cache
  THEN [m |-> [m EXCEPT !.stats.av_cache_hits = @ + 1], info |-> m.info_cache[ticker]]
  ELSE LET a == info_from_av(m, ticker, o.so, o.sq)
       IN IF a.info # NoInfo THEN a ELSE info_fallbacks(a.m, ticker, o.yf, o.ak)

\* the provider answers get_ticker_info can meet in state m (an answer that is
\* never read is not varied)
InfoChoices(env, m, ticker) ==
  LET answers(so, sq, yf, ak) == [so |-> so, sq |-> sq, yf |-> yf, ak |-> ak]
      noak   == [hist |-> <<>>, probe |-> <<>>]
      unread == answers(NoScript, NoScript, "exc", noak)
      first  == IF m.av_rate_limited THEN {NoScript} ELSE env.scripts
      second(so) ==
        IF av_request(m, AvKey("OVERVIEW", ticker), so, ZeroLat).m.av_rate_limited
        THEN {NoScript} ELSE env.scripts
      later(so, sq) ==
        LET a == info_from_av(m, ticker, so, sq)
            c == build_info_from_cache(a.m, ticker)
        IN IF a.info # NoInfo \/ c.info # NoInfo THEN {answers(so, sq, "exc", noak)}
           ELSE UNION {
                  LET y == yfinance_get_info_fallback(c.m, ticker, yf)
                  IN IF y.info # NoInfo THEN {answers(so, sq, yf, noak)}
                     ELSE {answers(so, sq, yf, ak) :
                             ak \in AkChoices(env, <<ticker>>)}
                  : yf \in (IF c.m.yf_available = "False" THEN {"exc"} ELSE env.yfkinds)}
  IN IF ticker \in DOMAIN m.info_cache THEN {unread}
     ELSE UNION {UNION {later(so, sq) : sq \in second(so)} : so \in first}

\* get_ticker_info(ticker)
GetTickerInfo(env, ticker) ==
  /\ ops < env.max_ops
  /\ \E o \in InfoChoices(env, Mgr, ticker) :
       LET call == Called("get_ticker_info", <<ticker>>, <<>>, "")
           r    == get_ticker_info(Mgr, ticker, o)
       IN IF ticker \in DOMAIN info_cache
          THEN /\ SetMgr(r.m)
               /\ last' = [call EXCEPT !.info = r.info, !.path = "exact"]
               /\ UNCHANGED first_result
               /\ ops' = ops + 1
          ELSE InfoReturned(call, r.m, r.info)

\* -------------------------------------------------- batch_get_ticker_info
\* _preload_stock_prices_yf (lines beyond the probe batch of three are not
\* reached: the modelled calls name at most two tickers)
preload_stock_prices_yf(m, tickers, yfo) ==
  LET need_load  == SelectSeq(tickers, LAMBDA t : ~HasKey(m.batch_cache, SingleKey(t)))
      test_batch == SubSeq(need_load, 1, Min(3, Len(need_load)))
  IN IF need_load = <<>> THEN m
     ELSE LET y == yfinance_fallback(m, test_batch, P3mo, "1d", "batch_get_ticker_info", yfo)
          IN IF IsNone(y.data) THEN y.m ELSE PreTake(y.m, test_batch, y.data, 1)

\* _akshare_batch_preload(tickers) with its default period "3mo"
akshare_batch_preload(m, tickers, ako) ==
  LET k == akshare_us_fallback(m, tickers, P3mo, "batch_get_ticker_info", ako)
  IN PutSingles(k.m, k.results, tickers)

\* lines 1262-1266: the tickers still without a cached frame after yfinance
still_need(m, uncached) ==
  SelectSeq(uncached, LAMBDA t : ~HasKey(m.batch_cache, SingleKey(t)))

\* lines 1268-1273: get_ticker_info for each uncached ticker, os[n] the
\* provider answers met by the n-th of them
RECURSIVE InfoLoop(_, _, _, _)
InfoLoop(st, uncached, os, n) ==
  IF n > Len(uncached) THEN st
  ELSE LET r == get_ticker_info(st.m, uncached[n], os[n])
       IN InfoLoop([m |-> r.m,
                    results |-> IF r.info # NoInfo THEN (uncached[n] :> r.info) @@ st.results
                                ELSE st.results],
                   uncached, os, n + 1)

\* the sequences of provider answers InfoLoop can meet from state m
RECURSIVE BatchChoices(_, _, _)
BatchChoices(env, m, uncached) ==
  IF uncached = <<>> THEN {<<>>}
  ELSE UNION {{<<o>> \o rest :
                 rest \in BatchChoices(env, get_ticker_info(m, Head(uncached), o).m,
                                       Tail(uncached))}
              : o \in InfoChoices(env, m, Head(uncached))}

\* lines 1222-1227
need_enrich(results, tickers) ==
  SelectSeq(tickers,
            LAMBDA t : /\ t \in DOMAIN results
                       /\ results[t].source \in {"cache_fallback", "alpha_vantage_quote_only"})

\* _enrich_cache_fallback_with_fundamentals: sao[n] tells whether
\* stockanalysis.com delivers fundamentals ("ok") for the n-th ticker to
\* enrich; the info dict is updated in place, and it is the dict the cache holds
RECURSIVE Enrich(_, _, _, _)
Enrich(st, todo, sao, n) ==
  IF n > Len(todo) THEN st
  ELSE IF sao[n] = "ok"
  THEN LET t    == todo[n]
           info == [st.results[t] EXCEPT !.source = "cache_plus_stockanalysis"]
       IN Enrich([m |-> [st.m EXCEPT !.info_cache = (t :> info) @@ @],
                  results |-> (t :> info) @@ st.results],
                 todo, sao, n + 1)
  ELSE Enrich(st, todo, sao, n + 1)

\* batch_get_ticker_info(tickers); the value of each phase is bound once
BatchGetTickerInfo(env, tickers) ==
  /\ ops < env.max_ops
  /\ LET call     == Called("batch_get_ticker_info", tickers, <<>>, "")
         uncached == SelectSeq(tickers, LAMBDA t : t \notin DOMAIN info_cache)
         cached   == [t \in Range(tickers) \cap DOMAIN info_cache |-> info_cache[t]]
         m0       == [Mgr EXCEPT !.stats.av_cache_hits = @ + Cardinality(DOMAIN cached)]
         preload  == av_rate_limited /\ uncached # <<>>
     IN \E yfo \in YfChoices(env, m0, IF preload THEN still_need(m0, uncached) ELSE <<>>) :
        \E m1 \in {IF preload THEN preload_stock_prices_yf(m0, uncached, yfo) ELSE m0} :
          LET sn == IF preload THEN still_need(m1, uncached) ELSE <<>>
          IN \E ako \in AkChoices(env, sn) :
             \E m2 \in {IF sn # <<>> THEN akshare_batch_preload(m1, sn, ako) ELSE m1} :
             \E os \in BatchChoices(env, m2, uncached) :
             \E l \in {InfoLoop([m |-> m2, results |-> cached], uncached, os, 1)} :
               LET todo == need_enrich(l.results, tickers)
               IN \E sao \in [1..Len(todo) -> {"ok", "fail"}] :
                  \E e \in {Enrich(l, todo, sao, 1)} :
                    /\ SetMgr(e.m)
                    /\ last' = [Traffic(call, e.m) EXCEPT !.path = "walk"]
                    /\ UNCHANGED first_result
                    /\ ops' = ops + 1

\* ----------------------------------------------------- fetch_av_indicator
\* cache_key = f"av_{symbol}_{indicator}_{time_period}" with the defaults RSI, 14
IndicatorKey(symbol) == [function |-> "av_RSI_14", symbol |-> symbol]

\* fetch_av_indicator(symbol): one _av_request whose attempts take lat seconds each
FetchAvIndicator(env, symbol, lat) ==
  /\ ops < env.max_ops
  /\ LET call == Called("fetch_av_indicator", <<symbol>>, <<>>, "")
     IN IF IndicatorKey(symbol) \in DOMAIN av_cache
        THEN Returned(call, Mgr, NoFrame, "exact")
        ELSE
          \E script \in (IF av_rate_limited \/ AvKey("RSI", symbol) \in DOMAIN av_cache
                         THEN {<<"error", "error", "error">>} ELSE env.scripts) :
            LET a == av_request(Mgr, AvKey("RSI", symbol), script, <<lat, lat, lat>>)
            IN CASE a.data = "ok" ->
                      Returned(call, [a.m EXCEPT !.av_cache = (IndicatorKey(symbol) :> "ok") @@ @],
                               NoFrame, "walk")
                 [] a.data = "badval" -> Raised(call, a.m)
                 [] OTHER -> Returned(call, a.m, NoFrame, "walk")

\* ---------------------------------------------------------------- get_stats
\* mutant: reading the report counts as a cache hit
get_stats_counting(m) == [m EXCEPT !.stats.av_cache_hits = @ + 1]

\* mutant: the report hands the counters out and clears them
get_stats_clearing(m) == [m EXCEPT !.stats = InitStats]

\* get_stats: the report is built from reads of the fields alone
get_stats(m) == m

\* get_stats()
GetStats(env) ==
  /\ ops < env.max_ops
  /\ LET call == Called("get_stats", <<>>, <<>>, "")
         m    == get_stats(Mgr)
     IN /\ SetMgr(m)
        /\ last' = [Traffic(call, m) EXCEPT !.path = "walk"]
        /\ UNCHANGED first_result
        /\ ops' = ops + 1

\* ------------------------------------------------- get_manager / reset_manager
\* DataSourceManager(config): every field of the instance is new; the module's
\* AKSHARE_US_PREFIX and the clock are not the instance's
new_manager(m) ==
  [m EXCEPT !.batch_cache = <<>>, !.info_cache = EmptyCols, !.av_cache = EmptyCols,
            !.av_rate_limited = FALSE, !.av_consecutive_limits = 0,
            !.yf_available = "None", !.stats = InitStats,
            !.since_stamp = AV_CALL_DELAY, !.yf_failed = FALSE]

\* reset_manager() followed by get_manager(): _global_manager is None, so a new
\* manager is constructed and is the one every later call works on
ResetManager(env) ==
  /\ ops < env.max_ops
  /\ LET call == Called("reset_manager", <<>>, <<>>, "")
         m    == new_manager(Mgr)
     IN /\ SetMgr(m)
        /\ last' = [Traffic(call, m) EXCEPT !.path = "walk", !.preloaded = {},
                                            !.first_info = EmptyCols]
        /\ first_result' = EmptyCols
        /\ ops' = ops + 1

\* a second passes between two public calls
Tick ==
  /\ since_stamp < AV_CALL_DELAY \/ since_net < AV_CALL_DELAY
  /\ since_stamp' = Min(AV_CALL_DELAY, since_stamp + 1)
  /\ since_net' = Min(AV_CALL_DELAY, since_net + 1)
  /\ UNCHANGED <<cacheVars, tierVars, stats, min_gap, akshare_us_prefix, yf_failed, ops, last,
                 first_result>>

\* --------------------------------------------------------- specifications
\* answer scripts of one Alpha Vantage request (one answer per attempt)
ScriptOk      == <<"ok", "ok", "ok">>
ScriptError   == <<"error", "ok", "ok">>
ScriptNoKey   == <<"nokey", "ok", "ok">>
ScriptBadVal  == <<"badval", "ok", "ok">>
ScriptGap     == <<"gap", "ok", "ok">>
ScriptQuota   == <<"quota", "ok", "ok">>
ScriptNote2   == <<"note", "note", "ok">>
ScriptNoteErr == <<"note", "error", "ok">>
ScriptExc     == <<"exc", "exc", "exc">>
ScriptExcOk   == <<"exc", "ok", "ok">>
ScriptNoteQuota == <<"note", "quota", "ok">>
ScriptExcQuota  == <<"exc", "quota", "ok">>
ScriptExc2Quota == <<"exc", "exc", "quota">>

Window(period) == [period |-> period, interval |-> "1d"]

\* Spec: a session of download_prices, preload_all and get_ticker_info calls
\* over every kind of payload, window and provider answer.
SessionEnv == Env({ScriptOk, ScriptError, ScriptBadVal}, {"exc", "data"}, {"ok", "fail"},
                  MaxOps)

SessionInputs == {<<"QQQ">>, <<"QQQ", "SPY">>, <<"SPY", "QQQ">>,
                  <<"QQQ", "SPY", "^VIX9D">>}

SessionWindows == {Window(P5d), Window(P3mo), Window(Pytd)}

Next ==
  \/ \E tickers \in SessionInputs, w \in SessionWindows :
       DownloadPrices(SessionEnv, tickers, w.period, w.interval)
  \/ \E w \in SessionWindows : PreloadAll(SessionEnv, w.period)
  \/ \E t \in {"QQQ", "^VIX9D"} : GetTickerInfo(SessionEnv, t)

Spec == Init /\ [][Next]_vars

\* SpecBreaker: a session in which Alpha Vantage answers with rate-limit notes
\* and quota messages, over a plain ticker and a no-mapping index.
BreakerEnv == Env({ScriptOk, ScriptError, ScriptQuota, ScriptNote2, ScriptNoteErr},
                  {"exc", "data"}, {"ok", "fail"}, MaxBreakerOps)

BreakerInputs == {<<"SPY">>, <<"^VIX9D">>, <<"SPY", "^VIX9D">>}

NextBreaker ==
  \/ \E tickers \in BreakerInputs : DownloadPrices(BreakerEnv, tickers, P3mo, "1d")
  \/ PreloadAll(BreakerEnv, P3mo)
  \/ \E t \in {"SPY", "^VIX9D"} : GetTickerInfo(BreakerEnv, t)
  \/ FetchAvIndicator(BreakerEnv, "SPY", 0)

SpecBreaker == Init /\ [][NextBreaker]_vars

\* SpecBatch: download_prices over three-ticker batches and their parts, with
\* every answer of the three tiers short of a malformed payload.
BatchEnv == Env({ScriptOk, ScriptError, ScriptNoKey}, {"exc", "empty", "data", "partial"},
                {"ok", "fail"}, MaxBatchOps)

BatchInputs == {<<"QQQ", "SPY", "^VIX9D">>, <<"^VIX9D", "SPY", "QQQ">>, <<"SPY">>,
                <<"QQQ", "^VIX9D">>}

NextBatch == \E tickers \in BatchInputs : DownloadPrices(BatchEnv, tickers, P3mo, "1d")

SpecBatch == Init /\ [][NextBatch]_vars

\* SpecRate: fetch_av_indicator calls whose attempts fail at once or after three
\* seconds, with time passing between the calls.
RateEnv == Env({ScriptOk, ScriptError, ScriptExc, ScriptExcOk, ScriptNoteErr},
               {"exc"}, {"fail"}, MaxRateOps)

NextRate ==
  \/ \E symbol \in {"QQQ", "SPY"}, lat \in {0, 3} : FetchAvIndicator(RateEnv, symbol, lat)
  \/ Tick

SpecRate == Init /\ [][NextRate]_vars

\* SpecInfo: a session of info requests, single and batched, between price
\* requests, with Alpha Vantage failing or out of quota.
InfoEnv == Env({ScriptOk, ScriptError, ScriptQuota}, {"exc", "data"}, {"ok", "fail"},
               MaxInfoOps)

NextInfo ==
  \/ \E t \in {"QQQ", "SPY"} : GetTickerInfo(InfoEnv, t)
  \/ \E tickers \in {<<"QQQ">>, <<"SPY", "QQQ">>} : BatchGetTickerInfo(InfoEnv, tickers)
  \/ DownloadPrices(InfoEnv, <<"QQQ">>, P3mo, "1d")
  \/ PreloadAll(InfoEnv, P3mo)

SpecInfo == Init /\ [][NextInfo]_vars

\* SpecStats: the diagnostics read between calls that fill the caches, count
\* requests and open the breaker.
StatsEnv == Env({ScriptOk, ScriptQuota, ScriptNoteErr}, {"exc", "data"}, {"ok", "fail"},
                MaxStatsOps)

NextStats ==
  \/ GetStats(StatsEnv)
  \/ GetTickerInfo(StatsEnv, "QQQ")
  \/ \E tickers \in {<<"QQQ">>, <<"SPY", "QQQ">>} : DownloadPrices(StatsEnv, tickers, P3mo, "1d")
  \/ FetchAvIndicator(StatsEnv, "SPY", 0)

SpecStats == Init /\ [][NextStats]_vars

\* SpecQuota: requests that meet the daily-quota message on the first attempt
\* or on a retry, with or without a rate-limit note counted before.
QuotaEnv == Env({ScriptOk, ScriptNoteErr, ScriptQuota, ScriptNoteQuota, ScriptExcQuota,
                 ScriptExc2Quota}, {"exc", "data"}, {"ok", "fail"}, MaxQuotaOps)

NextQuota ==
  \/ \E symbol \in {"QQQ", "SPY"} : FetchAvIndicator(QuotaEnv, symbol, 0)
  \/ \E t \in {"QQQ", "SPY"} : DownloadPrices(QuotaEnv, <<t>>, P3mo, "1d")

SpecQuota == Init /\ [][NextQuota]_vars

\* SpecDup: download_prices over ticker strings that name a ticker twice and
\* over the same strings without the repetition.
DupEnv == Env({ScriptOk, ScriptError}, {"exc", "data"}, {"ok", "fail"}, MaxDupOps)

DupInputs == {<<"SPY">>, <<"SPY", "SPY">>, <<"QQQ", "SPY">>, <<"QQQ", "SPY", "QQQ">>}

NextDup == \E tickers \in DupInputs : DownloadPrices(DupEnv, tickers, P3mo, "1d")

SpecDup == Init /\ [][NextDup]_vars

\* SpecPreload: preload_all followed and preceded by download_prices calls
\* for parts of the preload groups, over two windows.
PreloadEnv == Env({ScriptOk, ScriptError}, {"exc", "empty", "data", "partial"},
                  {"ok", "fail"}, MaxPreloadOps)

PreloadInputs == {<<"QQQ">>, <<"SPY", "QQQ">>, <<"^VIX9D">>, <<"QQQ", "^VIX9D">>}

PreloadWindows == {Window(P3mo), Window(Pytd)}

NextPreload ==
  \/ \E tickers \in PreloadInputs, w \in PreloadWindows :
       DownloadPrices(PreloadEnv, tickers, w.period, w.interval)
  \/ \E w \in PreloadWindows : PreloadAll(PreloadEnv, w.period)

SpecPreload == Init /\ [][NextPreload]_vars

\* SpecReset: the module-level manager: price requests for a stock the static
\* AkShare table does not hold and for an ETF it holds, info and indicator
\* requests, the stats report, and reset_manager() followed by get_manager().
ResetEnv == Env({ScriptOk, ScriptError}, {"exc", "data"}, {"ok", "fail"}, MaxResetOps)

ResetInputs == {<<"TCEHY">>, <<"QQQ">>}

NextReset ==
  \/ \E tickers \in ResetInputs : DownloadPrices(ResetEnv, tickers, P3mo, "1d")
  \/ GetTickerInfo(ResetEnv, "QQQ")
  \/ FetchAvIndicator(ResetEnv, "QQQ", 0)
  \/ GetStats(ResetEnv)
  \/ ResetManager(ResetEnv)

SpecReset == Init /\ [][NextReset]_vars

\* SpecNorm: download_prices over payloads of every shape _av_daily_to_df can be
\* handed: well-formed, without the series key, with an unparsable number, and
\* with a row that lacks a number.
NormEnv == Env({ScriptOk, ScriptNoKey, ScriptBadVal, ScriptGap}, {"exc", "data"}, {"fail"},
               MaxNormOps)

NextNorm ==
  \E tickers \in {<<"QQQ">>, <<"SPY">>, <<"QQQ", "SPY">>} :
    DownloadPrices(NormEnv, tickers, P3mo, "1d")

SpecNorm == Init /\ [][NextNorm]_vars

\* ----------------------------------------------------------------- claims
\* what the statements below read off the last call
IsDownload == last.op = "download_prices"

NoProviderCall ==
  last.av_net = 0 /\ last.yf_net = 0 /\ last.ak_net = 0 /\ last.ak_probes = <<>>

FromCache == last.path \in {"exact", "subset", "single"}

\* the batch keys under which an earlier call (not the last one) returned a frame
EarlierKeys == {k \in DOMAIN first_result : first_result[k].at < ops}

\* C1: once download_prices(L, p, i) has returned a non-empty result, every later
\* download_prices call with the same window and a permutation of L makes no
\* provider call and returns that same frame.
C1_PermutationSameFrame ==
  (IsDownload /\ last.key \in EarlierKeys) =>
     /\ NoProviderCall
     /\ last.result = first_result[last.key].frame

\* C2: after download_prices on a ticker set A has returned a frame that holds
\* ticker t, a later download_prices for t alone with the same window makes no
\* provider call and returns the projection of that first frame onto t.
C2_SubsetProjection ==
  (IsDownload /\ Len(last.key.tl) = 1) =>
     \A k \in EarlierKeys :
       (/\ k.period = last.period
        /\ k.interval = last.interval
        /\ last.key.tl[1] \in Level1(first_result[k].frame)) =>
          /\ NoProviderCall
          /\ last.result = Xs(first_result[k].frame, last.key.tl[1])

\* C3: every frame download_prices returns from a cache path was fetched under
\* exactly the period and interval of the request.
C3_CacheHitWindow ==
  (IsDownload /\ FromCache) =>
     \A t \in Level1(last.result) :
       /\ last.result.cols[t].period = last.period
       /\ last.result.cols[t].interval = last.interval

C5_BreakerNeverCloses ==
  /\ ~av_rate_limited
  /\ [][av_rate_limited => av_rate_limited']_vars

C5_Witness == av_rate_limited /\ last.pre_open /\ last.op = "get_ticker_info"

\* C6: in a download_prices walk a ticker mapped to the no-mapping sentinel is
\* never asked of Alpha Vantage and is handed to yfinance in that same call; a
\* call for such a ticker alone makes no Alpha Vantage call and leaves the
\* breaker's count and flag as they were.
C6_SentinelSkipsPrimary ==
  (IsDownload /\ last.path = "walk") =>
     \A t \in Range(last.tickers) :
       (IsSentinel(t) /\ t \notin last.pre_singles) =>
          /\ t \notin last.av_asked
          /\ t \in Range(last.yf_handed)
          /\ last.pre_yf # "False" => last.yf_net = 1
          /\ Range(last.tickers) = {t} =>
               /\ last.av_net = 0
               /\ last.av_slots = 0
               /\ av_rate_limited = last.pre_open
               /\ av_consecutive_limits = last.pre_limits

C6_Witness ==
  /\ IsDownload
  /\ last.path = "walk"
  /\ last.tickers = <<"SPY", "^VIX9D">>
  /\ ~last.pre_open
  /\ last.av_asked = {"SPY"}
  /\ "^VIX9D" \in Range(last.yf_handed)
  /\ last.yf_net = 1

C8_NeverRaises == IsDownload => ~last.raised

\* C9: once a yfinance call has failed with an exception, no later call of the
\* session invokes yfinance again.
C9_FailureRemembered == last.pre_yf_failed => last.yf_net = 0

\* C10: two successive HTTP calls to Alpha Vantage, retries included, are never
\* less than AV_CALL_DELAY seconds apart.
C10_MinInterval == min_gap >= AV_CALL_DELAY

\* C11: in a download_prices walk, for every requested ticker that exhausted
\* all tiers, get_closes on the returned result gives None.
C11_FailedTickerAbsent ==
  (IsDownload /\ last.path = "walk") =>
     \A t \in last.failed : ~get_closes(last.result, t).ok

\* C12: a key present in the price cache or in the info cache keeps its value
\* in every later state.
C12_CacheImmutable ==
  [][/\ \A n \in 1..Len(batch_cache) :
          /\ HasKey(batch_cache', batch_cache[n].key)
          /\ Get(batch_cache', batch_cache[n].key) = batch_cache[n].val
     /\ \A t \in DOMAIN info_cache :
          /\ t \in DOMAIN info_cache'
          /\ info_cache'[t] = info_cache[t]]_vars

\* what Alpha Vantage answered to the one request of the last call
OneRequest == last.av_reqs = 1

Notes == {i \in 1..Len(last.av_answers) : last.av_answers[i] = "note"}

\* C13: in a call that makes one Alpha Vantage request, the first rate-limit
\* note of the request is followed by one more attempt, and a second note
\* opens the breaker and is the last attempt of the request.
C13_OneRetryThenOpen ==
  OneRequest =>
     \A i \in Notes :
       IF \A j \in Notes : i <= j
       THEN Len(last.av_answers) > i
       ELSE av_rate_limited /\ Len(last.av_answers) = i

\* C14: a quota message from Alpha Vantage opens the breaker on that answer,
\* whatever the count of consecutive notes and the attempt it arrives on, and
\* is the last attempt of the request.
C14_QuotaOpensAtOnce ==
  OneRequest =>
     \A i \in 1..Len(last.av_answers) :
       last.av_answers[i] = "quota" =>
          /\ av_rate_limited
          /\ Len(last.av_answers) = i
          /\ last.av_net = i

\* a quota message on a retry, met with one note already counted before the
\* request
C14_Witness ==
  /\ OneRequest
  /\ last.pre_limits = 1
  /\ ~last.pre_open
  /\ last.av_answers = <<"exc", "quota">>
  /\ av_rate_limited

\* C15: download_prices uses the cache slot of the sorted ticker set without
\* repetitions, and asks Alpha Vantage at most once for each distinct ticker.
C15_Deduplicated ==
  IsDownload =>
     /\ last.key.tl = SetToSeq(Range(last.tickers))
     /\ last.av_reqs <= Cardinality(Range(last.tickers))

\* C16: when download_prices answers from a cached superset entry that holds
\* only some of the requested tickers, every requested ticker the entry does
\* not hold is walked through the provider tiers in that call.
C16_MissingStillWalked ==
  (IsDownload /\ last.path = "subset") =>
     LET found == Range(last.tickers) \cap Level1(last.result)
     IN found # {} =>
          \A t \in Range(last.tickers) \ found :
            t \in last.av_asked \/ t \in Range(last.yf_handed)

\* C17: after a preload_all(period) has completed, a download_prices call with
\* that period and interval "1d" for tickers that preload_all had loaded and
\* that lie in one preload group returns a frame from the cache, without a
\* provider call and without raising.
C17_PreloadedServed ==
  (IsDownload /\ last.interval = "1d") =>
     \A pl \in last.preloaded, n \in 1..Len(preload_groups) :
       (/\ pl.period = last.period
        /\ Range(last.tickers) \subseteq pl.tickers \cap Range(preload_groups[n].tickers)) =>
          /\ NoProviderCall
          /\ ~last.raised
          /\ FromCache
          /\ ~IsNone(last.result)

\* a single ticker cut out of the merged entry preload_all built for its group
C17_Witness ==
  /\ IsDownload
  /\ last.tickers = <<"QQQ">>
  /\ \E pl \in last.preloaded : pl.period = last.period /\ {"QQQ", "SPY"} \subseteq pl.tickers
  /\ last.path = "subset"
  /\ last.result.kind = "plain"
  /\ last.result.cols["QQQ"].by = "preload_all"

\* C18: in a download_prices walk, an empty answer of a provider leaves that
\* provider's breaker or availability state as it was and sends the tickers on
\* to the next tier: an Alpha Vantage answer without rows leaves the breaker
\* closed and the tickers go to yfinance; an empty yfinance answer leaves the
\* availability flag as it was and the tickers go to AkShare.
C18_EmptyLeavesProvider ==
  (IsDownload /\ last.path = "walk") =>
     /\ (OneRequest /\ last.av_answers = <<"nokey">>) =>
          /\ av_rate_limited = last.pre_open
          /\ last.yf_handed # <<>>
     /\ last.yf_answers = <<"empty">> =>
          /\ last.ak_net = Cardinality(AkNeeded(last.yf_handed))
          /\ yf_available = last.pre_yf

\* C19: once get_ticker_info(t) has returned a non-empty mapping, every later
\* get_ticker_info(t) makes no provider call and returns that same mapping.
C19_InfoCached ==
  (/\ last.op = "get_ticker_info"
   /\ last.tickers[1] \in DOMAIN last.first_info
   /\ last.first_info[last.tickers[1]].at < ops) =>
      /\ NoProviderCall
      /\ last.info = last.first_info[last.tickers[1]].info

\* C20: a get_stats call leaves every cache, every counter, the breaker count
\* and flag, the availability flag and the rate limiter's timestamp unchanged.
C20_GetStatsReadOnly ==
  [][(last'.op = "get_stats" /\ ops' = ops + 1) =>
       UNCHANGED <<batch_cache, info_cache, av_cache, stats, av_consecutive_limits,
                   av_rate_limited, yf_available, since_stamp, since_net>>]_vars

\* get_stats called with filled caches, counted calls and the breaker open
C20_Witness ==
  /\ last.op = "get_stats"
  /\ batch_cache # <<>>
  /\ DOMAIN info_cache # {}
  /\ stats.av_calls > 0
  /\ av_rate_limited

\* C21: on one manager instance no counter of _stats ever decreases from one
\* state to the next; only the step that replaces the manager (reset_manager
\* and the construction that follows) takes the counters back to zero.
C21_CountersMonotone ==
  [][last'.op # "reset_manager" => \A k \in DOMAIN stats : stats'[k] >= stats[k]]_vars

\* several calls on one manager have counted provider calls, a cache hit and an error
C21_Witness ==
  /\ ops = 3
  /\ last.op # "reset_manager"
  /\ stats.av_calls >= 1
  /\ stats.av_cache_hits >= 1
  /\ stats.errors >= 1

\* the tier whose frame f is
TierOf(f) == f.cols[CHOOSE u \in DOMAIN f.cols : TRUE].tier

\* the tickers a tier resolved in the last download_prices call
AvResolved == DOMAIN last.after_av

YfResolved == {t \in DOMAIN last.after_yf : TierOf(last.after_yf[t]) = "yf"}

AkResolved == {t \in DOMAIN last.delivered : TierOf(last.delivered[t]) = "ak"}

\* C22: in a download_prices call that walks the tiers, yfinance is handed only
\* tickers Alpha Vantage was skipped for or failed for, AkShare only tickers that
\* were handed to yfinance and that yfinance did not resolve, and no ticker a
\* tier resolved is handed to a later tier.
C22_TierOrder ==
  (IsDownload /\ last.path = "walk") =>
    /\ Range(last.yf_handed) \cap AvResolved = {}
    /\ last.av_asked \subseteq AvResolved \cup Range(last.yf_handed)
    /\ Range(last.ak_handed) \subseteq Range(last.yf_handed)
    /\ Range(last.ak_handed) \cap (AvResolved \cup YfResolved) = {}
    /\ YfResolved \subseteq Range(last.yf_handed)
    /\ AkResolved \subseteq Range(last.ak_handed)
    /\ last.yf_net > 0 => last.yf_handed # <<>>
    /\ last.ak_net > 0 => last.ak_handed # <<>>

\* _av_consecutive_limits after the answers of the HTTP calls, read in order
RECURSIVE CountAfter(_, _)
CountAfter(c, answers) ==
  IF answers = <<>> THEN c
  ELSE CountAfter(CASE Head(answers) = "note" -> c + 1
                    [] Head(answers) \in {"error", "quota", "exc"} -> c
                    [] OTHER -> 0,
                  Tail(answers))

\* C23: over the Alpha Vantage answers of a call, _av_consecutive_limits goes
\* up by exactly one at each rate-limit Note, is zero right after each
\* delivered payload, and is changed by nothing else.
C23_CountTracksNotes ==
  /\ av_consecutive_limits = CountAfter(last.pre_limits, last.av_answers)
  /\ (last.av_answers # <<>>
        /\ last.av_answers[Len(last.av_answers)] \notin {"note", "error", "quota", "exc"})
       => av_consecutive_limits = 0

\* a payload delivered to a request that started with one Note counted
C23_Witness ==
  /\ last.pre_limits = 1
  /\ last.av_answers = <<"ok">>
  /\ av_consecutive_limits = 0

\* C24: a ticker whose translation has run the prefix probe in an earlier call
\* is translated from the memo in every later call: no probe call is made for
\* it again.
C24_ProbedOnce == \A t \in last.probed : t \notin Range(last.ak_probes)

\* C25: no frame in the price cache holds a row in which 0 stands in for a
\* number the provider did not supply.
C25_NoPlaceholder ==
  \A n \in 1..Len(batch_cache) :
    \A t \in DOMAIN batch_cache[n].val.cols : ~batch_cache[n].val.cols[t].zero

C27_FreshAfterReset ==
  last.op = "reset_manager" =>
    /\ batch_cache = <<>>
    /\ info_cache = EmptyCols
    /\ av_cache = EmptyCols
    /\ ~av_rate_limited
    /\ av_consecutive_limits = 0
    /\ yf_available = "None"
    /\ stats = InitStats
    /\ akshare_us_prefix = EmptyCols

\* C28: a frame download_prices returns from a cache path for a single ticker
\* holds that ticker's own series and no other.
C28_OwnFrame ==
  (IsDownload /\ FromCache /\ Len(last.tickers) = 1 /\ ~IsNone(last.result)) =>
     \A t \in Level1(last.result) : last.result.cols[t].src = last.tickers[1]

\* C29: a download_prices call makes at most max_retries HTTP attempts per
\* Alpha Vantage request, at most one Alpha Vantage request per requested
\* ticker, and at most one yfinance download.
C29_BoundedCalls ==
  IsDownload =>
    /\ last.av_net <= max_retries * last.av_reqs
    /\ last.av_reqs <= Cardinality(Range(last.tickers))
    /\ last.yf_net <= 1

\* C30: a download_prices call in which every tier failed for every requested
\* ticker returns None without raising and leaves the price cache as it was,
\* and a download_prices call for the same key that comes next is not answered
\* from the cache: it walks the tiers again.
C30_AllFailedNotCached ==
  [][(last'.op = "download_prices" /\ ops' = ops + 1) =>
       /\ (last'.path = "walk" /\ last'.failed = Range(last'.tickers)) =>
            /\ IsNone(last'.result)
            /\ ~last'.raised
            /\ batch_cache' = batch_cache
       /\ (/\ IsDownload /\ last.path = "walk" /\ last.failed = Range(last.tickers)
           /\ last'.key = last.key) =>
            last'.path \notin {"exact", "subset", "single"}]_vars

\* a second request in a row for which every tier failed: nothing is cached
\* and Alpha Vantage has been asked again
C30_Witness ==
  /\ IsDownload
  /\ ops = 2
  /\ last.path = "walk"
  /\ last.failed = Range(last.tickers)
  /\ last.pre_yf_failed
  /\ last.av_net >= 1
  /\ IsNone(last.result)
  /\ batch_cache = <<>>

====
